---- MODULE Spec2Model ----
(***************************************************************************)
(* Model of mautrix_telegram/bot.py: the relay bot's chat registry         *)
(* (Bot.chats mirrored in the BotChat table), its command permission check *)
(* (Bot._can_use_commands) and its update dispatcher (Bot.update).         *)
(*                                                                         *)
(* Every handler is one atomic action.  A handler runs over a "world"      *)
(* record w = [chats, db, wl, calls, err]: the in-memory registry, the     *)
(* BotChat table, tg_whitelist, the log of the calls the handler made to   *)
(* itself and to its collaborators, and the exception that is propagating  *)
(* (None when there is none).  Once err is set every later step of the     *)
(* handler is skipped, as a Python exception skips the rest of the body.   *)
(* ret is the value the last call returned.                                *)
(*                                                                         *)
(* pre and last are history variables: the registry, table and whitelist   *)
(* as the last handler found them, and what that handler was given, did    *)
(* and returned.  Return drops them once the handler has returned, so the  *)
(* next handler starts from the program's state alone.                     *)
(*                                                                         *)
(* Spec is the whole program.  SpecRegistry and SpecCommands are the two   *)
(* halves that share no state but the Bot's identity: the handlers of the  *)
(* registry, from any BotChat table, and the handlers of the permission    *)
(* check and the commands, from any configured whitelist.  SpecPermissions *)
(* is start() and the permission check from a whitelist configured with    *)
(* strings too, SpecMatch is match_command over a set of texts, and        *)
(* SpecTasks runs add_chat, remove_chat and the migration await by await:  *)
(* tasks holds the calls that are suspended in an await of the table.      *)
(***************************************************************************)
EXTENDS Integers, Sequences, FiniteSets, TLC

\* ---- bounds ---------------------------------------------------------------
MaxChatId == 2
MaxUserId == 2
MaxWhitelistCfg == 2
\* calls of add_chat and remove_chat that are suspended at the same time
MaxTasks == 2

ChatIds == 1..MaxChatId
UserIds == 1..MaxUserId
TaskIds == 1..MaxTasks

\* ---- values ---------------------------------------------------------------
None == "None"
\* self.tgid = None
NoTgid == 0
\* self.tg_username = None (a bot's username is never empty)
NoUsername == << >>
\* portal.peer_type / BotChat.type
Kinds == {"user", "chat", "channel"}
\* TypePeer: PeerUser(user_id), PeerChat(chat_id), PeerChannel(channel_id)
Peers == [kind : {"user"}, id : UserIds] \cup [kind : {"chat", "channel"}, id : ChatIds]
\* message.to_id of a command: the command handlers read the kind of the peer
\* and hand its id on as it is, so one chat of each kind stands for all
CommandPeers == {p \in Peers : p.id = 1}

VARIABLES
    chats,                  \* Bot.chats: chat id -> type
    db,                     \* rows of the BotChat table: id -> type
    tg_whitelist,           \* Bot.tg_whitelist: list of user ids
    whitelist_group_admins, \* Bot.whitelist_group_admins
    config_whitelist,       \* Bot.config["bridge.relaybot.whitelist"]
    tgid,                   \* Bot.tgid (NoTgid until post_login)
    tg_username,            \* Bot.tg_username (NoUsername until post_login)
    started,                \* start() has been called
    tasks,                  \* the suspended calls of add_chat and remove_chat
    pre,                    \* chats, db and tg_whitelist before the last handler
    last                    \* the last handler: its inputs, result and calls

vars == <<chats, db, tg_whitelist, whitelist_group_admins, config_whitelist, tgid,
          tg_username, started, tasks, pre, last>>

\* ---- finite maps and sequences -------------------------------------------
EmptyMap == [x \in {} |-> "chat"]
Put(f, k, v) == [x \in DOMAIN f \cup {k} |-> IF x = k THEN v ELSE f[x]]
Del(f, k) == [x \in DOMAIN f \ {k} |-> f[x]]
Maps(S, T) == UNION {[D -> T] : D \in SUBSET S}
Range(s) == {s[i] : i \in DOMAIN s}
Perms(S) == {s \in [1..Cardinality(S) -> S] : Range(s) = S}
SeqsUpTo(S, n) == UNION {[1..k -> S] : k \in 0..n}

\* ---- the call log ---------------------------------------------------------
Call(op, id, arg) == [op |-> op, id |-> id, arg |-> arg]
Log(w, op, id, arg) == [w EXCEPT !.calls = Append(@, Call(op, id, arg))]
Raise(w, e) == [w EXCEPT !.err = e]
CallsOf(calls, op) == {i \in DOMAIN calls : calls[i].op = op}
CallsOfId(calls, op, id) == {i \in DOMAIN calls : calls[i].op = op /\ calls[i].id = id}
NCalls(calls, op) == Cardinality(CallsOf(calls, op))
NCallsId(calls, op, id) == Cardinality(CallsOfId(calls, op, id))

World(c, d, wl) ==
    [chats |-> c, db |-> d, wl |-> wl, calls |-> << >>, err |-> None, ret |-> None, need |-> None]
\* return a value / consult an answer of the environment that is not chosen yet
Ret(w, v) == [w EXCEPT !.ret = v]
Need(w, field) == [w EXCEPT !.err = "?", !.need = field]
Here == World(chats, db, tg_whitelist)
Snapshot == [chats |-> chats, db |-> db, wl |-> tg_whitelist]

\* ---- the BotChat table ----------------------------------------------------
\* BotChat(id, type).insert(): the table holds one row per id
BotChatInsert(w, id, type) ==
    LET w1 == Log(w, "BotChat.insert", id, type)
    IN  IF id \in DOMAIN w.db
        THEN Raise(w1, "IntegrityError")
        ELSE [w1 EXCEPT !.db = Put(@, id, type)]

\* BotChat.delete_by_id(id)
BotChatDelete(w, id) ==
    [Log(w, "BotChat.delete_by_id", id, "") EXCEPT !.db = Del(@, id)]

\* ---- Bot.add_chat / Bot.remove_chat --------------------------------------
\* add_chat that stores the given type whether or not the id is registered
add_chat_overwrite(w, chat_id, chat_type) ==
    IF w.err # None THEN w
    ELSE LET w1 == Log(w, "add_chat", chat_id, chat_type)
             w2 == [w1 EXCEPT !.chats = Put(@, chat_id, chat_type)]
         IN  IF chat_id \notin DOMAIN w1.chats
             THEN BotChatInsert(w2, chat_id, chat_type)
             ELSE w2

add_chat(w, chat_id, chat_type) ==
    IF w.err # None THEN w
    ELSE LET w1 == Log(w, "add_chat", chat_id, chat_type)
         IN  IF chat_id \notin DOMAIN w1.chats
             THEN BotChatInsert([w1 EXCEPT !.chats = Put(@, chat_id, chat_type)],
                                chat_id, chat_type)
             ELSE w1

\* remove_chat that deletes the row only when the id was registered
remove_chat_if_registered(w, chat_id) ==
    IF w.err # None THEN w
    ELSE LET w1 == Log(w, "remove_chat", chat_id, "")
         IN  IF chat_id \in DOMAIN w1.chats
             THEN BotChatDelete([w1 EXCEPT !.chats = Del(@, chat_id)], chat_id)
             ELSE w1

remove_chat(w, chat_id) ==
    IF w.err # None THEN w
    ELSE LET w1 == Log(w, "remove_chat", chat_id, "")
         IN  BotChatDelete([w1 EXCEPT !.chats = Del(@, chat_id)], chat_id)

\* Bot.is_in_chat
is_in_chat(c, peer_id) == peer_id \in DOMAIN c

\* ---- Bot.handle_service_message ------------------------------------------
\* MessageService.action
Actions ==
    [type : {"add_user"}, users : SUBSET UserIds, user_id : {NoTgid}, channel_id : {0}]
    \cup [type : {"delete_user"}, users : {{}}, user_id : UserIds, channel_id : {0}]
    \cup [type : {"migrate_to"}, users : {{}}, user_id : {NoTgid}, channel_id : ChatIds]
    \cup [type : {"other"}, users : {{}}, user_id : {NoTgid}, channel_id : {0}]

\* handle_service_message that adds the new channel before it removes the group
handle_service_message_add_first(w, me, to_peer, action) ==
    IF to_peer.kind \notin {"channel", "chat"} THEN w
    ELSE LET to_id == to_peer.id
             chat_type == to_peer.kind
         IN  IF action.type = "add_user" /\ me \in action.users
                 THEN add_chat(w, to_id, chat_type)
             ELSE IF action.type = "delete_user" /\ action.user_id = me
                 THEN remove_chat(w, to_id)
             ELSE IF action.type = "migrate_to"
                 THEN remove_chat(add_chat(w, action.channel_id, "channel"), to_id)
             ELSE w

\* handle_service_message that registers every chat it joins as a legacy group
handle_service_message_group_kind(w, me, to_peer, action) ==
    IF to_peer.kind \notin {"channel", "chat"} THEN w
    ELSE LET to_id == to_peer.id
             chat_type == "chat"
         IN  IF action.type = "add_user" /\ me \in action.users
                 THEN add_chat(w, to_id, chat_type)
             ELSE IF action.type = "delete_user" /\ action.user_id = me
                 THEN remove_chat(w, to_id)
             ELSE IF action.type = "migrate_to"
                 THEN add_chat(remove_chat(w, to_id), action.channel_id, "channel")
             ELSE w

\* handle_service_message that rewrites the kind of the group that migrates
handle_service_message_mutate_kind(w, me, to_peer, action) ==
    IF to_peer.kind \notin {"channel", "chat"} THEN w
    ELSE LET to_id == to_peer.id
             chat_type == to_peer.kind
         IN  IF action.type = "add_user" /\ me \in action.users
                 THEN add_chat(w, to_id, chat_type)
             ELSE IF action.type = "delete_user" /\ action.user_id = me
                 THEN remove_chat(w, to_id)
             ELSE IF action.type = "migrate_to"
                 THEN IF to_id \in DOMAIN w.chats
                      THEN [w EXCEPT !.chats = Put(@, to_id, "channel"),
                                     !.db = Put(@, to_id, "channel")]
                      ELSE add_chat(w, action.channel_id, "channel")
             ELSE w

\* handle_service_message that takes the join of any user for its own
handle_service_message_any_user(w, me, to_peer, action) ==
    IF to_peer.kind \notin {"channel", "chat"} THEN w
    ELSE LET to_id == to_peer.id
             chat_type == to_peer.kind
         IN  IF action.type = "add_user" /\ action.users # {}
                 THEN add_chat(w, to_id, chat_type)
             ELSE IF action.type = "delete_user" /\ action.user_id = me
                 THEN remove_chat(w, to_id)
             ELSE IF action.type = "migrate_to"
                 THEN add_chat(remove_chat(w, to_id), action.channel_id, "channel")
             ELSE w

handle_service_message(w, me, to_peer, action) ==
    IF to_peer.kind \notin {"channel", "chat"} THEN w
    ELSE LET to_id == to_peer.id
             chat_type == to_peer.kind
         IN  IF action.type = "add_user" /\ me \in action.users
                 THEN add_chat(w, to_id, chat_type)
             ELSE IF action.type = "delete_user" /\ action.user_id = me
                 THEN remove_chat(w, to_id)
             ELSE IF action.type = "migrate_to"
                 THEN add_chat(remove_chat(w, to_id), action.channel_id, "channel")
             ELSE w

\* ---- str.lower, str.startswith, str.index, str.find -----------------------
UpperChars == <<"A", "B", "C", "D", "E", "F", "G", "H", "I", "J", "K", "L", "M",
                "N", "O", "P", "Q", "R", "S", "T", "U", "V", "W", "X", "Y", "Z">>
LowerChars == <<"a", "b", "c", "d", "e", "f", "g", "h", "i", "j", "k", "l", "m",
                "n", "o", "p", "q", "r", "s", "t", "u", "v", "w", "x", "y", "z">>
LowerOf == [c \in {UpperChars[i] : i \in DOMAIN UpperChars} |->
                LowerChars[CHOOSE i \in DOMAIN UpperChars : UpperChars[i] = c]]
lower_char(c) == IF c \in DOMAIN LowerOf THEN LowerOf[c] ELSE c
lower(s) == [i \in 1..Len(s) |-> lower_char(s[i])]
startswith(s, prefix) == Len(s) >= Len(prefix) /\ SubSeq(s, 1, Len(prefix)) = prefix
\* s.find(c): the 0-based index of the first c in s, -1 when there is none
find(s, c) ==
    IF \E i \in DOMAIN s : s[i] = c
    THEN (CHOOSE i \in DOMAIN s : s[i] = c /\ \A j \in 1..(i - 1) : s[j] # c) - 1
    ELSE -1

\* ---- Bot.match_command ----------------------------------------------------
\* client.get_me(): the bot's account
BotIds == {1}
BotUsernames == {<<"B", "o", "t">>}

CmdStart == <<"s", "t", "a", "r", "t">>
CmdId == <<"i", "d">>
CmdPortal == <<"p", "o", "r", "t", "a", "l">>
CmdInvite == <<"i", "n", "v", "i", "t", "e">>

\* match_command that takes every text that begins with the command
match_command_prefix(username, text, command) ==
    LET t == lower(text)
        cmd == <<"/">> \o lower(command)
        command_targeted == cmd \o <<"@">> \o lower(username)
    IN  startswith(t, cmd) \/ startswith(t, command_targeted)

match_command(username, text, command) ==
    LET t == lower(text)
        cmd == <<"/">> \o lower(command)
        command_targeted == cmd \o <<"@">> \o lower(username)
        is_plain_command == t = cmd \/ t = command_targeted
        is_arg_command == startswith(t, cmd \o <<" ">>)
                          \/ startswith(t, command_targeted \o <<" ">>)
    IN  is_plain_command \/ is_arg_command

\* message.message of the command messages the dispatcher is given
TextStart == <<"/", "s", "t", "a", "r", "t">>
TextId == <<"/", "i", "d">>
TextPortalUpper == <<"/", "P", "O", "R", "T", "A", "L">>
TextPortalTargeted == <<"/", "p", "o", "r", "t", "a", "l", "@", "b", "o", "t", " ", "x">>
TextPortalish == <<"/", "p", "o", "r", "t", "a", "l", "i", "s", "h">>
TextInvite == <<"/", "i", "n", "v", "i", "t", "e", " ", "@", "a", ":", "B">>
TextInviteBare == <<"/", "i", "n", "v", "i", "t", "e">>
TextInviteNoSigil == <<"/", "i", "n", "v", "i", "t", "e", " ", "a", ":", "b">>
TextInviteNoDomain == <<"/", "I", "n", "v", "i", "t", "e", "@", "B", "o", "t", " ", "@", ":", "b">>
TextInviteEarlyColon == <<"/", "i", "n", "v", "i", "t", "e", " ", "@", ":", "b", ":", "c">>
TextHelp == <<"/", "h", "e", "l", "p">>
Texts == {TextStart, TextId, TextPortalUpper, TextPortalTargeted, TextPortalish, TextInvite,
          TextInviteBare, TextInviteNoSigil, TextInviteNoDomain, TextInviteEarlyColon, TextHelp}

\* match_command of every text for every command name, worked out once
Commands == {CmdStart, CmdId, CmdPortal, CmdInvite}
Matches ==
    [username \in BotUsernames, text \in Texts, command \in Commands |->
        match_command(username, text, command)]

\* The texts and command names match_command is given when it is called on its
\* own: a text is a lead, a name, a target and a rest
TextLeads == {<<"/">>, << >>, <<" ", "/">>}
TextNames ==
    Commands \cup {<<"I", "D">>, <<"P", "o", "r", "t", "a", "l">>, <<"i">>,
                   <<"p", "o", "r", "t", "a", "l", "i", "s", "h">>}
TextTargets ==
    {<< >>, <<"@", "b", "o", "t">>, <<"@", "B", "O", "T">>, <<"@", "B", "o", "t">>,
     <<"@", "b", "o">>, <<"@">>, <<"@", "b", "o", "t", "s">>}
TextRests == {<< >>, <<" ">>, <<" ", "X", "y">>, <<"x">>, <<"\t", "x">>}
MatchTexts ==
    {a \o b \o c \o d : a \in TextLeads, b \in TextNames, c \in TextTargets, d \in TextRests}
MatchCommands == Commands \cup {<<"P", "o", "r", "t", "a", "l">>}

\* ---- the answers of the collaborators ------------------------------------
\* One answer per collaborator a command handler can consult; "?" is an answer
\* that is not chosen yet (Answers chooses exactly those a handler consults).
\*   reply        client.send_message: ok | error
\*   pcm          config["bridge.relaybot.private_chat.message"] is set: yes | no
\*   store        u.User.get_by_tgid: none | user | admin
\*   participant  GetParticipantRequest: creator | admin | member | error
\*   full_chat    GetFullChatRequest, the caller's record: creator | admin | member
\*                | absent | error
\*   authless     config["bridge.relaybot.authless_portals"]: yes | no
\*   bridging     portal.allow_bridging: yes | no
\*   room         portal.mxid is set: yes | no
\*   public       portal.username is set: yes | no
\*   target_wl    user.relaybot_whitelisted: yes | no
\*   target_in    user.is_logged_in(): yes | no
YesNo == {"yes", "no"}
AnswerValues ==
    [reply |-> {"ok", "error"}, pcm |-> YesNo, store |-> {"none", "user", "admin"},
     participant |-> {"creator", "admin", "member", "error"},
     full_chat |-> {"creator", "admin", "member", "absent", "error"},
     authless |-> YesNo, bridging |-> YesNo, room |-> YesNo, public |-> YesNo,
     target_wl |-> YesNo, target_in |-> YesNo]
NoAnswers == [f \in DOMAIN AnswerValues |-> "?"]

\* reply(reply_text): kind names the text that is sent
reply(w, env, kind) ==
    IF w.err # None THEN w
    ELSE IF env.reply = "?" THEN Need(w, "reply")
    ELSE LET w1 == Log(w, "reply", 0, kind)
         IN  IF env.reply = "error" THEN Raise(w1, "SendError") ELSE w1

\* ---- Bot._can_use_commands ------------------------------------------------
IsGroupAdmin(record) == record \in {"creator", "admin"}
Bool(b) == IF b THEN "True" ELSE "False"

\* _can_use_commands that asks the user store before it reads the whitelist
can_use_commands_store_first(w, group_admins, env, chat, sender) ==
    IF env.store = "?" THEN Need(w, "store")
    ELSE LET w1 == Log(w, "User.get_by_tgid", sender, env.store)
         IN  IF sender \in Range(w.wl) THEN Ret(w1, "True")
             ELSE IF env.store = "admin"
                 THEN Ret([w1 EXCEPT !.wl = Append(@, sender)], "True")
             ELSE Ret(w1, "False")

\* _can_use_commands that allows an admin of the bridge without remembering it
can_use_commands_no_promotion(w, group_admins, env, chat, sender) ==
    IF sender \in Range(w.wl) THEN Ret(w, "True")
    ELSE IF env.store = "?" THEN Need(w, "store")
    ELSE LET w1 == Log(w, "User.get_by_tgid", sender, env.store)
         IN  IF env.store = "admin" THEN Ret(w1, "True") ELSE Ret(w1, "False")

\* _can_use_commands that checks the group admins whatever the option says
can_use_commands_always_group_admins(w, group_admins, env, chat, sender) ==
    IF sender \in Range(w.wl) THEN Ret(w, "True")
    ELSE IF env.store = "?" THEN Need(w, "store")
    ELSE LET w1 == Log(w, "User.get_by_tgid", sender, env.store)
         IN  IF env.store = "admin"
                 THEN Ret([w1 EXCEPT !.wl = Append(@, sender)], "True")
             ELSE IF chat.kind = "channel"
                 THEN IF env.participant = "?" THEN Need(w1, "participant")
                      ELSE LET w2 == Log(w1, "GetParticipantRequest", sender, env.participant)
                           IN  IF env.participant = "error" THEN Raise(w2, "RPCError")
                               ELSE Ret(w2, Bool(IsGroupAdmin(env.participant)))
             ELSE IF chat.kind = "chat"
                 THEN IF env.full_chat = "?" THEN Need(w1, "full_chat")
                      ELSE LET w2 == Log(w1, "GetFullChatRequest", chat.id, env.full_chat)
                           IN  IF env.full_chat = "error" THEN Raise(w2, "RPCError")
                               ELSE Ret(w2, Bool(IsGroupAdmin(env.full_chat)))
             ELSE Ret(w1, "False")

can_use_commands(w, group_admins, env, chat, sender) ==
    IF sender \in Range(w.wl) THEN Ret(w, "True")
    ELSE IF env.store = "?" THEN Need(w, "store")
    ELSE LET w1 == Log(w, "User.get_by_tgid", sender, env.store)
         IN  IF env.store = "admin"
                 THEN Ret([w1 EXCEPT !.wl = Append(@, sender)], "True")
             ELSE IF group_admins /\ chat.kind = "channel"
                 THEN IF env.participant = "?" THEN Need(w1, "participant")
                      ELSE LET w2 == Log(w1, "GetParticipantRequest", sender, env.participant)
                           IN  IF env.participant = "error" THEN Raise(w2, "RPCError")
                               ELSE Ret(w2, Bool(IsGroupAdmin(env.participant)))
             ELSE IF group_admins /\ chat.kind = "chat"
                 THEN IF env.full_chat = "?" THEN Need(w1, "full_chat")
                      ELSE LET w2 == Log(w1, "GetFullChatRequest", chat.id, env.full_chat)
                           IN  IF env.full_chat = "error" THEN Raise(w2, "RPCError")
                               ELSE Ret(w2, Bool(IsGroupAdmin(env.full_chat)))
             ELSE Ret(w1, "False")

\* ---- Bot.check_can_use_commands ------------------------------------------
\* from_id is the sender's user id, as TelegramID(event.from_id) takes it to be
check_can_use_commands(w, group_admins, env, to_id, from_id) ==
    LET w1 == can_use_commands(w, group_admins, env, to_id, from_id)
        a == Log(w1, "_can_use_commands", from_id, w1.ret)
    IN  IF w1.err # None THEN w1
        ELSE IF a.ret = "False" THEN Ret(reply(a, env, "no_permission"), "False")
        ELSE Ret(a, "True")

\* ---- Bot.handle_command_portal -------------------------------------------
handle_command_portal(w, env) ==
    IF env.authless = "?" THEN Need(w, "authless")
    ELSE IF env.authless = "no" THEN reply(w, env, "no_authless_portals")
    ELSE IF env.bridging = "?" THEN Need(w, "bridging")
    ELSE IF env.bridging = "no" THEN reply(w, env, "no_bridging")
    ELSE IF env.room = "?" THEN Need(w, "room")
    ELSE LET w1 == Log(w, "portal.create_matrix_room", 0, env.room)
         IN  IF env.room = "no" THEN w1
             ELSE IF env.public = "?" THEN Need(w1, "public")
             ELSE IF env.public = "yes" THEN reply(w1, env, "portal_public")
             ELSE reply(w1, env, "portal_private")

\* ---- Bot.handle_command_invite -------------------------------------------
\* handle_command_invite that takes a ":" right after the "@" for a Matrix ID
handle_command_invite_early_colon(w, env, mxid_input) ==
    IF Len(mxid_input) = 0 THEN reply(w, env, "usage")
    ELSE IF env.room = "?" THEN Need(w, "room")
    ELSE IF env.room = "no" THEN reply(w, env, "no_room")
    ELSE IF mxid_input[1] # "@" \/ find(mxid_input, ":") < 1
        THEN reply(w, env, "not_a_matrix_id")
    ELSE IF env.target_wl = "?" THEN Need(w, "target_wl")
    ELSE LET w1 == Log(w, "User.get_and_start_by_mxid", 0, env.target_wl)
         IN  IF env.target_wl = "no" THEN reply(w1, env, "not_whitelisted")
             ELSE IF env.target_in = "?" THEN Need(w1, "target_in")
             ELSE IF env.target_in = "yes" THEN reply(w1, env, "logged_in")
             ELSE reply(Log(w1, "portal.invite_to_matrix", 0, ""), env, "invited")

handle_command_invite(w, env, mxid_input) ==
    IF Len(mxid_input) = 0 THEN reply(w, env, "usage")
    ELSE IF env.room = "?" THEN Need(w, "room")
    ELSE IF env.room = "no" THEN reply(w, env, "no_room")
    ELSE IF mxid_input[1] # "@" \/ find(mxid_input, ":") < 2
        THEN reply(w, env, "not_a_matrix_id")
    ELSE IF env.target_wl = "?" THEN Need(w, "target_wl")
    ELSE LET w1 == Log(w, "User.get_and_start_by_mxid", 0, env.target_wl)
         IN  IF env.target_wl = "no" THEN reply(w1, env, "not_whitelisted")
             ELSE IF env.target_in = "?" THEN Need(w1, "target_in")
             ELSE IF env.target_in = "yes" THEN reply(w1, env, "logged_in")
             ELSE reply(Log(w1, "portal.invite_to_matrix", 0, ""), env, "invited")

\* ---- Bot.handle_command_id ------------------------------------------------
handle_command_id(w, env, to_id) ==
    IF to_id.kind = "channel" THEN reply(w, env, "id_channel")
    ELSE IF to_id.kind = "chat" THEN reply(w, env, "id_chat")
    ELSE IF to_id.kind = "user" THEN reply(w, env, "id_user")
    ELSE reply(w, env, "id_failed")

\* ---- Bot.handle_command ---------------------------------------------------
\* text[text.index(" ") + 1:], "" when text has no space
InviteArg(text) ==
    IF find(text, " ") < 0 THEN << >>
    ELSE SubSeq(text, find(text, " ") + 2, Len(text))

\* handle_command that runs the gated command whatever check_can_use_commands
\* returned
handle_command_unchecked(w, username, group_admins, env, text, to_id, from_id) ==
    IF username = NoUsername THEN Raise(w, "AttributeError")
    ELSE IF Matches[username, text, CmdStart]
        THEN IF env.pcm = "?" THEN Need(w, "pcm")
             ELSE IF env.pcm = "yes" THEN reply(w, env, "pcm") ELSE w
    ELSE IF Matches[username, text, CmdId] THEN handle_command_id(w, env, to_id)
    ELSE IF to_id.kind = "user" THEN w
    ELSE LET w1 == Log(w, "Portal.get_by_entity", to_id.id, to_id.kind)
             is_portal_cmd == Matches[username, text, CmdPortal]
             is_invite_cmd == Matches[username, text, CmdInvite]
         IN  IF ~(is_portal_cmd \/ is_invite_cmd) THEN w1
             ELSE LET w2 == check_can_use_commands(w1, group_admins, env, to_id, from_id)
                  IN  IF w2.err # None THEN w2
                      ELSE IF is_portal_cmd THEN handle_command_portal(w2, env)
                      ELSE handle_command_invite(
                               Log(w2, "handle_command_invite", 0, InviteArg(text)),
                               env, InviteArg(text))

\* handle_command that does not return early in a private chat
handle_command_in_private(w, username, group_admins, env, text, to_id, from_id) ==
    IF username = NoUsername THEN Raise(w, "AttributeError")
    ELSE IF Matches[username, text, CmdStart]
        THEN IF env.pcm = "?" THEN Need(w, "pcm")
             ELSE IF env.pcm = "yes" THEN reply(w, env, "pcm") ELSE w
    ELSE IF Matches[username, text, CmdId] THEN handle_command_id(w, env, to_id)
    ELSE LET w1 == Log(w, "Portal.get_by_entity", to_id.id, to_id.kind)
             is_portal_cmd == Matches[username, text, CmdPortal]
             is_invite_cmd == Matches[username, text, CmdInvite]
         IN  IF ~(is_portal_cmd \/ is_invite_cmd) THEN w1
             ELSE LET w2 == check_can_use_commands(w1, group_admins, env, to_id, from_id)
                  IN  IF w2.err # None \/ w2.ret = "False" THEN w2
                      ELSE IF is_portal_cmd THEN handle_command_portal(w2, env)
                      ELSE handle_command_invite(
                               Log(w2, "handle_command_invite", 0, InviteArg(text)),
                               env, InviteArg(text))

\* the call of handle_command_invite is logged with the mxid_input it is given
handle_command(w, username, group_admins, env, text, to_id, from_id) ==
    IF username = NoUsername THEN Raise(w, "AttributeError")
    ELSE IF Matches[username, text, CmdStart]
        THEN IF env.pcm = "?" THEN Need(w, "pcm")
             ELSE IF env.pcm = "yes" THEN reply(w, env, "pcm") ELSE w
    ELSE IF Matches[username, text, CmdId] THEN handle_command_id(w, env, to_id)
    ELSE IF to_id.kind = "user" THEN w
    ELSE LET w1 == Log(w, "Portal.get_by_entity", to_id.id, to_id.kind)
             is_portal_cmd == Matches[username, text, CmdPortal]
             is_invite_cmd == Matches[username, text, CmdInvite]
         IN  IF ~(is_portal_cmd \/ is_invite_cmd) THEN w1
             ELSE LET w2 == check_can_use_commands(w1, group_admins, env, to_id, from_id)
                  IN  IF w2.err # None \/ w2.ret = "False" THEN w2
                      ELSE IF is_portal_cmd THEN handle_command_portal(w2, env)
                      ELSE handle_command_invite(
                               Log(w2, "handle_command_invite", 0, InviteArg(text)),
                               env, InviteArg(text))

\* ---- the answers a handler consults --------------------------------------
\* Starting from env, the sets of answers under which the handler run(env)
\* consults every answer it is given and no other
RECURSIVE Answers(_, _)
Answers(run(_), env) ==
    LET w == run(env)
    IN  IF w.need = None THEN {env}
        ELSE UNION {Answers(run, [env EXCEPT ![w.need] = v]) : v \in AnswerValues[w.need]}

\* An entry of config["bridge.relaybot.whitelist"], with the answer of
\* client.get_input_entity for it when it is a string:
\*   int   - the user id v itself
\*   user  - a string that resolves to InputUser(v)
\*   other - a string that resolves to an entity that is no InputUser
\*   fail  - a string for which get_input_entity raises ValueError
WhitelistEntries ==
    [t : {"int", "user"}, v : UserIds] \cup [t : {"other", "fail"}, v : {NoTgid}]
CfgWhitelists == SeqsUpTo(WhitelistEntries, MaxWhitelistCfg)

\* A call that is suspended in an await of the BotChat table:
\*   op   add (add_chat), remove (remove_chat) or migrate (remove_chat and then
\*        add_chat, in handle_service_message)
\*   id   the chat id given to add_chat or remove_chat
\*   type the type given to add_chat
\*   new  the channel id of a migration
\*   was  id was registered when the call began
\*   pc   delete / insert: BotChat.delete_by_id / BotChat.insert is awaited;
\*        deleted / inserted / failed: it has taken effect (or raised), and
\*        the call has not resumed yet
NoTask == [op |-> "none", id |-> 0, type |-> "", new |-> 0, was |-> FALSE, pc |-> "done"]
NoTasks == [t \in TaskIds |-> NoTask]

\* No handler has run since the last one returned
NoHandler == [op |-> "idle", err |-> None, calls |-> << >>]
Idle == last = NoHandler

\* ---- the state after Bot.__init__ ----------------------------------------
Init ==
    /\ chats = EmptyMap
    /\ db \in Maps(ChatIds, Kinds)
    /\ tg_whitelist = << >>
    /\ whitelist_group_admins \in BOOLEAN
    /\ config_whitelist \in CfgWhitelists
    /\ tgid = NoTgid
    /\ tg_username = NoUsername
    /\ started = FALSE
    /\ tasks = NoTasks
    /\ pre = [chats |-> EmptyMap, db |-> db, wl |-> << >>]
    /\ last = NoHandler

\* A handler ran to w: its effects on the registry, the table and the whitelist
Commit(w) ==
    /\ chats' = w.chats
    /\ db' = w.db
    /\ tg_whitelist' = w.wl
    /\ pre' = Snapshot

\* ---- Bot.init_permissions -------------------------------------------------
RECURSIVE init_permissions(_, _, _)
init_permissions(w, whitelist, i) ==
    IF w.err # None \/ i > Len(whitelist) THEN w
    ELSE LET e == whitelist[i]
             w1 == IF e.t = "int" THEN w ELSE Log(w, "get_input_entity", i, e.t)
             w2 == IF e.t = "fail" THEN Raise(w1, "ValueError")
                   ELSE IF e.t \in {"int", "user"}
                       THEN [w1 EXCEPT !.wl = Append(@, e.v)]
                   ELSE w1
         IN  init_permissions(w2, whitelist, i + 1)

\* ---- Bot.post_login -------------------------------------------------------
ChatStatus == {"ok", "forbidden", "left", "deactivated"}
ChannelAnswers == {"ok", "ChannelPrivateError", "ChannelInvalidError", "RPCError"}
IdsOfType(c, type) == {id \in DOMAIN c : c[id] = type}

\* reconcile_chats that keeps the chats the bot has left
RECURSIVE reconcile_chats_keep_left(_, _, _)
reconcile_chats_keep_left(w, resp, id) ==
    IF id > MaxChatId THEN w
    ELSE reconcile_chats_keep_left(
            IF id \in DOMAIN resp /\ resp[id] \in {"forbidden", "deactivated"}
                THEN remove_chat(w, id) ELSE w,
            resp, id + 1)

\* for chat in response.chats: the ids the response holds, in ascending order
RECURSIVE reconcile_chats(_, _, _)
reconcile_chats(w, resp, id) ==
    IF id > MaxChatId THEN w
    ELSE reconcile_chats(
            IF id \in DOMAIN resp /\ resp[id] \in {"forbidden", "left", "deactivated"}
                THEN remove_chat(w, id) ELSE w,
            resp, id + 1)

\* reconcile_channels that takes every error for a loss of access
RECURSIVE reconcile_channels_any_error(_, _, _, _)
reconcile_channels_any_error(w, order, answer, i) ==
    IF w.err # None \/ i > Len(order) THEN w
    ELSE LET id == order[i]
             w1 == Log(w, "GetChannelsRequest", id, answer[id])
         IN  reconcile_channels_any_error(
                IF answer[id] # "ok" THEN remove_chat(w1, id) ELSE w1,
                order, answer, i + 1)

\* for channel_id in channel_ids: in the order the registry lists them
RECURSIVE reconcile_channels(_, _, _, _)
reconcile_channels(w, order, answer, i) ==
    IF w.err # None \/ i > Len(order) THEN w
    ELSE LET id == order[i]
             w1 == Log(w, "GetChannelsRequest", id, answer[id])
         IN  reconcile_channels(
                IF answer[id] \in {"ChannelPrivateError", "ChannelInvalidError"}
                    THEN remove_chat(w1, id)
                ELSE IF answer[id] = "ok" THEN w1
                ELSE Raise(w1, answer[id]),
                order, answer, i + 1)

\* resp.ok is FALSE when GetChatsRequest itself raises
post_login(w, whitelist, resp, order, answer) ==
    LET w1 == init_permissions(w, whitelist, 1)
        w2 == IF w1.err # None THEN w1 ELSE Log(w1, "get_me", 0, "")
        w3 == IF w2.err # None THEN w2
              ELSE LET q == Log(w2, "GetChatsRequest", 0, "")
                   IN  IF resp.ok THEN reconcile_chats(q, resp.chats, 1)
                       ELSE Raise(q, "RPCError")
    IN  reconcile_channels(w3, order, answer, 1)

\* The answers the client can give to the queries post_login makes from w
GroupResponses(w) ==
    [ok : {TRUE}, chats : Maps(IdsOfType(w.chats, "chat"), ChatStatus)]
    \cup [ok : {FALSE}, chats : {EmptyMap}]
ChannelOrders(c) == Perms(IdsOfType(c, "channel"))
ChannelAnswerMaps(c) == [IdsOfType(c, "channel") -> ChannelAnswers]


\* ---- Bot.start ------------------------------------------------------------
Start ==
    /\ Idle
    /\ ~started
    /\ started' = TRUE
    /\ \E me \in BotIds, name \in BotUsernames :
        LET whitelist == config_whitelist
            loaded == World(db, db, tg_whitelist)
            wp == init_permissions(loaded, whitelist, 1)
        IN  \E resp \in IF wp.err = None THEN GroupResponses(loaded)
                        ELSE {[ok |-> FALSE, chats |-> EmptyMap]} :
            \E answer \in ChannelAnswerMaps(loaded.chats) :
            \E order \in ChannelOrders(loaded.chats) :
                LET w == post_login(loaded, whitelist, resp, order, answer)
                    logged_in == NCalls(w.calls, "get_me") = 1
                IN  /\ Commit(w)
                    /\ tgid' = IF logged_in THEN me ELSE tgid
                    /\ tg_username' = IF logged_in THEN name ELSE tg_username
                    /\ last' = [op |-> "start", whitelist |-> whitelist, resp |-> resp,
                                order |-> order, answer |-> answer,
                                err |-> w.err, calls |-> w.calls]
    /\ UNCHANGED <<whitelist_group_admins, config_whitelist, tasks>>

\* ---- Bot.register_portal / Bot.unregister_portal -------------------------
RegisterPortal ==
    /\ Idle
    /\ started
    /\ \E id \in ChatIds, type \in Kinds :
        LET w == add_chat(Here, id, type)
        IN  /\ Commit(w)
            /\ last' = [op |-> "register_portal", id |-> id, type |-> type,
                        err |-> w.err, calls |-> w.calls]
    /\ UNCHANGED <<whitelist_group_admins, config_whitelist, tgid, tg_username, started, tasks>>

UnregisterPortal ==
    /\ Idle
    /\ started
    /\ \E id \in ChatIds :
        LET w == remove_chat(Here, id)
        IN  /\ Commit(w)
            /\ last' = [op |-> "unregister_portal", id |-> id,
                        err |-> w.err, calls |-> w.calls]
    /\ UNCHANGED <<whitelist_group_admins, config_whitelist, tgid, tg_username, started, tasks>>

\* ---- Bot.update -----------------------------------------------------------
\* not an UpdateNewMessage / UpdateNewChannelMessage
UpdateOther ==
    /\ Idle
    /\ Commit(Here)
    /\ last' = [op |-> "update_other", result |-> FALSE, err |-> None, calls |-> << >>]
    /\ UNCHANGED <<whitelist_group_admins, config_whitelist, tgid, tg_username, started, tasks>>

\* update.message is a MessageService
UpdateService ==
    /\ Idle
    /\ \E to_peer \in Peers, action \in Actions :
        LET w == handle_service_message(Here, tgid, to_peer, action)
        IN  /\ Commit(w)
            /\ last' = [op |-> "update_service", to_peer |-> to_peer, action |-> action,
                        result |-> FALSE, err |-> w.err, calls |-> w.calls]
    /\ UNCHANGED <<whitelist_group_admins, config_whitelist, tgid, tg_username, started, tasks>>

\* update.message is a Message whose first entity is a bot command at offset 0
UpdateCommand ==
    /\ Idle
    /\ \E text \in Texts, to_id \in CommandPeers, from_id \in UserIds :
        LET run(env) == handle_command(Here, tg_username, whitelist_group_admins,
                                       env, text, to_id, from_id)
        IN  \E env \in Answers(run, NoAnswers) :
                LET w == run(env)
                IN  /\ Commit(w)
                    /\ last' = [op |-> "update_command", text |-> text, to_id |-> to_id,
                                from_id |-> from_id, env |-> env, result |-> FALSE,
                                err |-> w.err, calls |-> w.calls]
    /\ UNCHANGED <<whitelist_group_admins, config_whitelist, tgid, tg_username, started, tasks>>

\* update.message is a Message that is no command
UpdatePlain ==
    /\ Idle
    /\ Commit(Here)
    /\ last' = [op |-> "update_plain", result |-> FALSE, err |-> None, calls |-> << >>]
    /\ UNCHANGED <<whitelist_group_admins, config_whitelist, tgid, tg_username, started, tasks>>

\* Bot.check_can_use_commands(event, reply), called on its own
CheckCanUseCommands ==
    /\ Idle
    /\ \E to_id \in CommandPeers, from_id \in UserIds :
        LET run(env) == check_can_use_commands(Here, whitelist_group_admins,
                                               env, to_id, from_id)
        IN  \E env \in Answers(run, NoAnswers) :
                LET w == run(env)
                IN  /\ Commit(w)
                    /\ last' = [op |-> "check_can_use_commands", to_id |-> to_id,
                                from_id |-> from_id, env |-> env, result |-> w.ret,
                                err |-> w.err, calls |-> w.calls]
    /\ UNCHANGED <<whitelist_group_admins, config_whitelist, tgid, tg_username, started, tasks>>

\* Bot.match_command(text, command), called on its own (in the program it is
\* called by handle_command only: SpecMatch has this action, Spec has not)
MatchCommand ==
    /\ Idle
    /\ \E text \in MatchTexts, command \in MatchCommands :
        LET w == IF tg_username = NoUsername THEN Raise(Here, "AttributeError")
                 ELSE Ret(Here, Bool(match_command(tg_username, text, command)))
        IN  /\ Commit(w)
            /\ last' = [op |-> "match_command", text |-> text, command |-> command,
                        result |-> w.ret, err |-> w.err, calls |-> w.calls]
    /\ UNCHANGED <<whitelist_group_admins, config_whitelist, tgid, tg_username, started, tasks>>

\* The handler has returned to its caller
Return ==
    /\ ~Idle
    /\ last' = NoHandler
    /\ pre' = Snapshot
    /\ UNCHANGED <<chats, db, tg_whitelist, whitelist_group_admins, config_whitelist,
                   tgid, tg_username, started, tasks>>

Next ==
    \/ Start
    \/ RegisterPortal
    \/ UnregisterPortal
    \/ UpdateOther
    \/ UpdateService
    \/ UpdateCommand
    \/ UpdatePlain
    \/ CheckCanUseCommands
    \/ Return

Spec == Init /\ [][Next]_vars

\* ---- the registry: start, portals and service messages -------------------
\* These handlers read the whitelist nowhere: the configured whitelist is empty
InitRegistry == Init /\ config_whitelist = << >>

NextRegistry ==
    \/ Start
    \/ RegisterPortal
    \/ UnregisterPortal
    \/ UpdateOther
    \/ UpdateService
    \/ Return

SpecRegistry == InitRegistry /\ [][NextRegistry]_vars

\* ---- permissions and commands, on a fresh installation -------------------
\* These handlers read the registry nowhere: the BotChat table is empty.  They
\* read the whitelist init_permissions has built, not the way it was resolved:
\* the whitelist is configured by user ids.
InitCommands ==
    /\ Init
    /\ db = EmptyMap
    /\ \A i \in DOMAIN config_whitelist : config_whitelist[i].t = "int"

NextCommands ==
    \/ Start
    \/ UpdateCommand
    \/ UpdatePlain
    \/ CheckCanUseCommands
    \/ Return

SpecCommands == InitCommands /\ [][NextCommands]_vars

\* ---- add_chat and remove_chat, await by await ------------------------------
\* The handlers above run from call to return in one step.  Here a call of
\* add_chat or remove_chat runs up to its await of the BotChat table in one
\* step, is suspended there while the operation on the table takes effect, and
\* resumes in a later step; other calls and is_in_chat run in between.  The
\* operations on the table of different calls take effect in any order.
TasksReady == started /\ last.op \in {"idle", "is_in_chat"}
HasFree == \E t \in TaskIds : tasks[t] = NoTask
FirstFree == CHOOSE t \in TaskIds : tasks[t] = NoTask /\ \A u \in 1..(t - 1) : tasks[u] # NoTask
Awaits(w, op) == NCalls(w.calls, op) = 1
\* no handler is running after a step of a call: pre is the state as it is
TaskFrame ==
    /\ last' = NoHandler
    /\ pre' = [chats |-> chats', db |-> db', wl |-> tg_whitelist]
    /\ UNCHANGED <<tg_whitelist, whitelist_group_admins, config_whitelist, tgid,
                   tg_username, started>>

\* add_chat(chat_id, chat_type), from register_portal or a join, up to its await
BeginAdd ==
    /\ TasksReady
    /\ HasFree
    /\ \E id \in ChatIds, type \in Kinds :
        LET w == add_chat(Here, id, type)
        IN  /\ chats' = w.chats
            /\ tasks' = IF Awaits(w, "BotChat.insert")
                         THEN [tasks EXCEPT ![FirstFree] =
                                [op |-> "add", id |-> id, type |-> type, new |-> 0,
                                 was |-> FALSE, pc |-> "insert"]]
                         ELSE tasks
    /\ UNCHANGED db
    /\ TaskFrame

\* remove_chat(chat_id), from unregister_portal, a leave or post_login, up to
\* its await
BeginRemove ==
    /\ TasksReady
    /\ HasFree
    /\ \E id \in ChatIds :
        LET w == remove_chat(Here, id)
        IN  /\ chats' = w.chats
            /\ tasks' = [tasks EXCEPT ![FirstFree] =
                            [op |-> "remove", id |-> id, type |-> "", new |-> 0,
                             was |-> id \in DOMAIN chats, pc |-> "delete"]]
    /\ UNCHANGED db
    /\ TaskFrame

\* handle_service_message of a migration, up to the await in remove_chat
BeginMigrate ==
    /\ TasksReady
    /\ HasFree
    /\ \E id \in ChatIds, new \in ChatIds :
        LET w == remove_chat(Here, id)
        IN  /\ chats' = w.chats
            /\ tasks' = [tasks EXCEPT ![FirstFree] =
                            [op |-> "migrate", id |-> id, type |-> "channel", new |-> new,
                             was |-> id \in DOMAIN chats, pc |-> "delete"]]
    /\ UNCHANGED db
    /\ TaskFrame

\* the operation on the table that a suspended call awaits takes effect
TableStep ==
    /\ TasksReady
    /\ \E t \in TaskIds :
        \/ /\ tasks[t].pc = "delete"
           /\ db' = BotChatDelete(Here, tasks[t].id).db
           /\ tasks' = [tasks EXCEPT ![t].pc = "deleted"]
        \/ /\ tasks[t].pc = "insert"
           /\ LET row == IF tasks[t].op = "migrate" THEN tasks[t].new ELSE tasks[t].id
                  w == BotChatInsert(Here, row, tasks[t].type)
              IN  /\ db' = w.db
                  /\ tasks' = [tasks EXCEPT ![t].pc =
                                    IF w.err = None THEN "inserted" ELSE "failed"]
    /\ UNCHANGED chats
    /\ TaskFrame

\* a suspended call resumes after its await: add_chat and remove_chat return,
\* and a migration goes on from remove_chat to add_chat, up to its await
Resume ==
    /\ TasksReady
    /\ \E t \in TaskIds :
        \/ /\ tasks[t].pc \in {"inserted", "failed"}
           /\ tasks' = [tasks EXCEPT ![t] = NoTask]
           /\ UNCHANGED chats
        \/ /\ tasks[t].pc = "deleted"
           /\ tasks[t].op = "remove"
           /\ tasks' = [tasks EXCEPT ![t] = NoTask]
           /\ UNCHANGED chats
        \/ /\ tasks[t].pc = "deleted"
           /\ tasks[t].op = "migrate"
           /\ LET w == add_chat(Here, tasks[t].new, "channel")
              IN  /\ chats' = w.chats
                  /\ tasks' = IF Awaits(w, "BotChat.insert")
                               THEN [tasks EXCEPT ![t].pc = "insert"]
                               ELSE [tasks EXCEPT ![t] = NoTask]
    /\ UNCHANGED db
    /\ TaskFrame

\* Bot.is_in_chat(peer_id), called while other calls are suspended
IsInChat ==
    /\ TasksReady
    /\ \E id \in ChatIds :
        last' = [op |-> "is_in_chat", id |-> id, result |-> is_in_chat(chats, id),
                 err |-> None, calls |-> << >>]
    /\ UNCHANGED <<chats, db, tg_whitelist, whitelist_group_admins, config_whitelist,
                   tgid, tg_username, started, tasks, pre>>

InitTasks == InitRegistry /\ ~whitelist_group_admins

NextTasks ==
    \/ Start
    \/ Return
    \/ BeginAdd
    \/ BeginRemove
    \/ BeginMigrate
    \/ TableStep
    \/ Resume
    \/ IsInChat

SpecTasks == InitTasks /\ [][NextTasks]_vars

\* ---- the configured whitelist ----------------------------------------------
\* init_permissions and the permission check, on a fresh installation, from any
\* configured whitelist: user ids and strings the client resolves or not
InitPermissions == Init /\ db = EmptyMap

NextPermissions ==
    \/ Start
    \/ CheckCanUseCommands
    \/ Return

SpecPermissions == InitPermissions /\ [][NextPermissions]_vars

\* ---- command matching ------------------------------------------------------
\* match_command and the commands that use it, with nothing configured
InitMatch == InitCommands /\ config_whitelist = << >>

NextMatch ==
    \/ Start
    \/ MatchCommand
    \/ UpdateCommand
    \/ Return

SpecMatch == InitMatch /\ [][NextMatch]_vars

\* ---- what the last handler did --------------------------------------------
\* the last handler was the dispatcher handling a migration of a registered group
Migrated ==
    /\ last.op = "update_service"
    /\ last.action.type = "migrate_to"
    /\ last.to_peer.kind # "user"
    /\ last.to_peer.id \in DOMAIN pre.chats
    /\ pre.chats[last.to_peer.id] = "chat"
MigratedFrom == last.to_peer.id
MigratedTo == last.action.channel_id
OneRemoveOneAdd ==
    /\ NCalls(last.calls, "remove_chat") = 1
    /\ NCallsId(last.calls, "remove_chat", MigratedFrom) = 1
    /\ NCalls(last.calls, "add_chat") = 1
    /\ NCallsId(last.calls, "add_chat", MigratedTo) = 1

\* C1 as claimed: a migration of a registered group `old` to another id `new`
\* leaves `new` registered as a channel and `old` not registered, through one
\* remove of `old` and one add of `new`, whatever the registry held before.
C1_MigrationAlwaysYieldsChannel ==
    (Migrated /\ MigratedTo # MigratedFrom) =>
        /\ MigratedTo \in DOMAIN chats
        /\ chats[MigratedTo] = "channel"
        /\ MigratedFrom \notin DOMAIN chats
        /\ OneRemoveOneAdd

\* C1 as amended: a migration of a registered group `old` to `new` makes one
\* remove of `old` and one add of `new` and leaves every other entry as it
\* was; afterwards `new` is registered and `old` is not, unless it is `new`.
\* `new` is a channel, by one insert, unless `new` is another id than `old`
\* that was registered already: it then keeps its kind and nothing is inserted.
C1_Migration ==
    Migrated =>
        /\ OneRemoveOneAdd
        /\ DOMAIN chats = (DOMAIN pre.chats \ {MigratedFrom}) \cup {MigratedTo}
        /\ \A id \in DOMAIN chats :
            chats[id] = IF id \in DOMAIN pre.chats /\ id # MigratedFrom
                        THEN pre.chats[id] ELSE "channel"
        /\ NCalls(last.calls, "BotChat.insert")
            = IF MigratedTo \in DOMAIN pre.chats /\ MigratedTo # MigratedFrom
              THEN 0 ELSE 1

C1_Witness ==
    /\ Migrated
    /\ MigratedTo \notin DOMAIN pre.chats
    /\ MigratedFrom \notin DOMAIN chats
    /\ chats[MigratedTo] = "channel"

\* the last handler made one call of remove_chat and none of add_chat
RemovedOnly ==
    /\ last.op \in {"unregister_portal", "update_service"}
    /\ NCalls(last.calls, "remove_chat") = 1
    /\ NCalls(last.calls, "add_chat") = 0
RemovedId == last.calls[CHOOSE i \in DOMAIN last.calls : last.calls[i].op = "remove_chat"].id

\* C2 as claimed: remove_chat of an id that is not registered changes nothing,
\* raises nothing and makes no call of BotChat.delete_by_id.
C2_RemoveAbsentMakesNoCall ==
    (RemovedOnly /\ RemovedId \notin DOMAIN pre.chats) =>
        /\ chats = pre.chats
        /\ last.err = None
        /\ NCalls(last.calls, "BotChat.delete_by_id") = 0

\* C2 as amended: remove_chat of an id that is not registered leaves the
\* registry as it was and raises nothing, and makes exactly one call of
\* BotChat.delete_by_id, for that id.
C2_RemoveAbsent ==
    (RemovedOnly /\ RemovedId \notin DOMAIN pre.chats) =>
        /\ chats = pre.chats
        /\ last.err = None
        /\ NCalls(last.calls, "BotChat.delete_by_id") = 1
        /\ NCallsId(last.calls, "BotChat.delete_by_id", RemovedId) = 1

C2_Witness ==
    /\ RemovedOnly
    /\ RemovedId \notin DOMAIN pre.chats
    /\ pre.chats # EmptyMap
    /\ NCallsId(last.calls, "BotChat.delete_by_id", RemovedId) = 1

\* the last handler made one call of add_chat and none of remove_chat
AddedOnly ==
    /\ last.op \in {"register_portal", "update_service"}
    /\ NCalls(last.calls, "add_chat") = 1
    /\ NCalls(last.calls, "remove_chat") = 0
Added == last.calls[CHOOSE i \in DOMAIN last.calls : last.calls[i].op = "add_chat"]

\* C3: add_chat of a registered id changes neither the registry, not even the
\* kind, nor the table and makes no insert; add_chat of an id that is not
\* registered registers it with the given kind and makes exactly one insert,
\* of that id and kind.
C3_AddChat ==
    AddedOnly =>
        IF Added.id \in DOMAIN pre.chats
        THEN /\ chats = pre.chats
             /\ db = pre.db
             /\ NCalls(last.calls, "BotChat.insert") = 0
        ELSE /\ chats = Put(pre.chats, Added.id, Added.arg)
             /\ NCalls(last.calls, "BotChat.insert") = 1
             /\ \E i \in CallsOfId(last.calls, "BotChat.insert", Added.id) :
                    last.calls[i].arg = Added.arg

C3_Witness ==
    /\ AddedOnly
    /\ Added.id \in DOMAIN pre.chats
    /\ pre.chats[Added.id] # Added.arg
    /\ chats[Added.id] = pre.chats[Added.id]

\* the last handler called _can_use_commands for last.from_id in last.to_id
Gated ==
    /\ last.op = "update_command"
    /\ NCalls(last.calls, "Portal.get_by_entity") = 1
    /\ \/ Matches[tg_username, last.text, CmdPortal]
       \/ Matches[tg_username, last.text, CmdInvite]
AuthCall == last.op = "check_can_use_commands" \/ Gated
AuthReturned == NCalls(last.calls, "_can_use_commands") = 1
AuthRet ==
    last.calls[CHOOSE i \in DOMAIN last.calls : last.calls[i].op = "_can_use_commands"].arg
RemoteQueries == {"GetParticipantRequest", "GetFullChatRequest"}
NoRemoteQuery == \A i \in DOMAIN last.calls : last.calls[i].op \notin RemoteQueries
NoStoreLookup == NCalls(last.calls, "User.get_by_tgid") = 0
QueryFailed ==
    \E i \in DOMAIN last.calls :
        last.calls[i].op \in RemoteQueries /\ last.calls[i].arg = "error"

\* C4 as claimed: when a remote query of the group-admin check fails,
\* _can_use_commands returns False and the failure does not reach its caller.
C4_QueryFailureDenies ==
    (AuthCall /\ QueryFailed) =>
        /\ AuthReturned
        /\ AuthRet = "False"
        /\ last.err # "RPCError"

\* C5 as claimed: Bot.update raises for no update.
C5_UpdateNeverRaises ==
    last.op \in {"update_other", "update_service", "update_command", "update_plain"}
        => last.err = None

\* C6: when the sender is in tg_whitelist, _can_use_commands returns True
\* without a lookup in the user store and without a remote query, for every
\* kind of chat and either value of whitelist_group_admins.
C6_WhitelistShortCircuit ==
    (AuthCall /\ last.from_id \in Range(pre.wl)) =>
        /\ AuthReturned
        /\ AuthRet = "True"
        /\ NoStoreLookup
        /\ NoRemoteQuery
        /\ tg_whitelist = pre.wl

C6_Witness ==
    /\ last.op = "check_can_use_commands"
    /\ last.from_id \in Range(pre.wl)
    /\ last.to_id.kind = "user"
    /\ whitelist_group_admins
    /\ AuthRet = "True"

\* the user store answered that the sender is an admin of the bridge
FoundAdmin ==
    \E i \in DOMAIN last.calls :
        last.calls[i].op = "User.get_by_tgid" /\ last.calls[i].arg = "admin"

\* C7: when _can_use_commands finds the sender flagged admin in the user store
\* it returns True and the sender is in tg_whitelist afterwards; no handler
\* takes a user out of tg_whitelist; and a call for a user who is in
\* tg_whitelist returns True with no lookup in the user store.
C7_Promotion ==
    /\ (AuthCall /\ FoundAdmin) =>
        /\ AuthReturned
        /\ AuthRet = "True"
        /\ last.from_id \in Range(tg_whitelist)
    /\ Len(pre.wl) <= Len(tg_whitelist)
    /\ SubSeq(tg_whitelist, 1, Len(pre.wl)) = pre.wl
    /\ (AuthCall /\ last.from_id \in Range(pre.wl)) =>
        /\ AuthReturned
        /\ AuthRet = "True"
        /\ NoStoreLookup

C7_Witness ==
    /\ AuthCall
    /\ FoundAdmin
    /\ last.from_id \notin Range(pre.wl)
    /\ last.from_id \in Range(tg_whitelist)
    /\ pre.wl # << >>

\* C8: for a sender who is not in tg_whitelist and not flagged admin in the
\* store, and with no remote query failing, _can_use_commands returns True iff
\* whitelist_group_admins is set and either the chat is a channel and the
\* sender's participant record is creator or admin, or the chat is a legacy
\* group and the participant list holds a record of the sender that is creator
\* or admin; with the option unset or another kind of chat no remote query is
\* made.
C8_GroupAdminCheck ==
    (/\ AuthCall
     /\ last.from_id \notin Range(pre.wl)
     /\ last.env.store \in {"none", "user"}
     /\ ~QueryFailed) =>
        /\ AuthReturned
        /\ AuthRet = "True" <=>
            /\ whitelist_group_admins
            /\ \/ /\ last.to_id.kind = "channel"
                  /\ last.env.participant \in {"creator", "admin"}
               \/ /\ last.to_id.kind = "chat"
                  /\ last.env.full_chat \in {"creator", "admin"}
        /\ (~whitelist_group_admins \/ last.to_id.kind = "user") => NoRemoteQuery
        /\ (last.to_id.kind = "channel") =>
                NCalls(last.calls, "GetFullChatRequest") = 0
        /\ (last.to_id.kind = "chat") =>
                NCalls(last.calls, "GetParticipantRequest") = 0

C8_Witness ==
    /\ AuthCall
    /\ last.from_id \notin Range(pre.wl)
    /\ last.env.store = "user"
    /\ last.to_id.kind = "chat"
    /\ last.env.full_chat = "absent"
    /\ AuthRet = "False"

\* post_login asked for the legacy groups and the client answered
GroupsAnswered ==
    /\ last.op = "start"
    /\ NCalls(last.calls, "GetChatsRequest") = 1
    /\ last.resp.ok
Reported(id) ==
    /\ id \in DOMAIN last.resp.chats
    /\ last.resp.chats[id] \in {"forbidden", "left", "deactivated"}
Deletes(id) == NCallsId(last.calls, "BotChat.delete_by_id", id)

\* C9: after post_login, every legacy group of the loaded registry that the
\* bulk lookup reported forbidden, left or deactivated is out of the registry
\* with exactly one delete for its id, and every other legacy group is still
\* registered as a legacy group, with no delete.
C9_ReconcileGroups ==
    GroupsAnswered =>
        \A id \in IdsOfType(pre.db, "chat") :
            IF Reported(id)
            THEN id \notin DOMAIN chats /\ Deletes(id) = 1
            ELSE id \in DOMAIN chats /\ chats[id] = "chat" /\ Deletes(id) = 0

C9_Witness ==
    /\ GroupsAnswered
    /\ \E a, b \in IdsOfType(pre.db, "chat") :
        /\ a \in DOMAIN last.resp.chats
        /\ last.resp.chats[a] = "left"
        /\ ~Reported(b)
        /\ a \notin DOMAIN chats
        /\ b \in DOMAIN chats

\* the place in last.order of the first channel whose query raised another
\* error than ChannelPrivateError and ChannelInvalidError
FirstOtherError ==
    IF \E i \in DOMAIN last.order : last.answer[last.order[i]] = "RPCError"
    THEN CHOOSE i \in DOMAIN last.order :
            /\ last.answer[last.order[i]] = "RPCError"
            /\ \A j \in 1..(i - 1) : last.answer[last.order[j]] # "RPCError"
    ELSE Len(last.order) + 1

\* C10: in post_login a ChannelPrivateError or ChannelInvalidError on a
\* channel's query takes that channel, and no other entry, out of the registry
\* and the table, and the next channels are still queried; any other error of a
\* reconciliation query propagates out of post_login, and the channel whose
\* query failed and the channels not queried yet stay in the registry and in
\* the table.
C10_ReconcileChannels ==
    (last.op = "start" /\ NCalls(last.calls, "GetChatsRequest") = 1) =>
        IF ~last.resp.ok
        THEN last.err = "RPCError" /\ chats = pre.db /\ db = pre.db
        ELSE /\ last.err = IF FirstOtherError <= Len(last.order) THEN "RPCError" ELSE None
             /\ \A i \in DOMAIN last.order :
                    LET id == last.order[i]
                    IN  IF /\ i < FirstOtherError
                           /\ last.answer[id] \in {"ChannelPrivateError", "ChannelInvalidError"}
                        THEN id \notin DOMAIN chats /\ Deletes(id) = 1
                        ELSE /\ id \in DOMAIN chats /\ chats[id] = "channel"
                             /\ id \in DOMAIN db /\ db[id] = "channel"
                             /\ Deletes(id) = 0
             /\ NCalls(last.calls, "GetChannelsRequest")
                    = IF FirstOtherError <= Len(last.order)
                      THEN FirstOtherError ELSE Len(last.order)
             /\ \A id \in IdsOfType(pre.db, "user") :
                    id \in DOMAIN chats /\ chats[id] = "user"

C10_Witness ==
    /\ last.op = "start"
    /\ last.resp.ok
    /\ Len(last.order) = 2
    /\ last.answer[last.order[1]] = "ChannelPrivateError"
    /\ last.answer[last.order[2]] = "RPCError"
    /\ last.order[1] \notin DOMAIN chats
    /\ last.order[2] \in DOMAIN chats
    /\ last.err = "RPCError"

\* ---- gated commands -------------------------------------------------------
PortalEffects == {"portal.create_matrix_room", "portal.invite_to_matrix"}
NoPortalEffect == \A i \in DOMAIN last.calls : last.calls[i].op \notin PortalEffects
AuthAt == CHOOSE i \in DOMAIN last.calls : last.calls[i].op = "_can_use_commands"
\* the last handler was a portal or invite command whose authorize call returned False
Denied == Gated /\ AuthReturned /\ AuthRet = "False"

\* C11: in a portal or invite command outside a private chat, every call of
\* portal.create_matrix_room and portal.invite_to_matrix comes after a call of
\* _can_use_commands that returned True; when _can_use_commands returned False
\* neither is called, the invite handler is not entered, the one thing the
\* handler does after the check is to send the permission-denied reply, and
\* the registry, the table and tg_whitelist are as they were.
C11_CheckBeforeGatedEffect ==
    /\ last.op = "update_command" =>
        \A i \in DOMAIN last.calls :
            last.calls[i].op \in PortalEffects =>
                \E j \in 1..(i - 1) :
                    /\ last.calls[j].op = "_can_use_commands"
                    /\ last.calls[j].arg = "True"
    /\ Denied =>
        /\ NoPortalEffect
        /\ NCalls(last.calls, "handle_command_invite") = 0
        /\ Len(last.calls) = AuthAt + 1
        /\ last.calls[AuthAt + 1] = Call("reply", 0, "no_permission")
        /\ chats = pre.chats
        /\ db = pre.db
        /\ tg_whitelist = pre.wl

C11_Witness ==
    /\ Denied
    /\ last.text = TextPortalUpper
    /\ last.env.store = "user"
    /\ last.err = None
    /\ NCalls(last.calls, "reply") = 1

\* the last handler was a portal or invite command in a private chat, received
\* once the bot knows its username
PrivateCommand ==
    /\ last.op = "update_command"
    /\ last.to_id.kind = "user"
    /\ tg_username # NoUsername
PrivateGated ==
    /\ PrivateCommand
    /\ \/ Matches[tg_username, last.text, CmdPortal]
       \/ Matches[tg_username, last.text, CmdInvite]

\* C12: a portal or invite command in a private chat makes no call at all (no
\* reply, no lookup in the user store, no remote query, no call of the portal)
\* and leaves tg_whitelist, the registry and the table as they were; a start
\* command there sends the configured private-chat message when there is one,
\* and an id command there sends the reply with the user id.
C12_PrivateGatedIgnored ==
    /\ PrivateGated =>
        /\ last.calls = << >>
        /\ last.err = None
        /\ tg_whitelist = pre.wl
        /\ chats = pre.chats
        /\ db = pre.db
    /\ (PrivateCommand /\ Matches[tg_username, last.text, CmdStart]) =>
        /\ last.env.pcm = "yes" => NCallsId(last.calls, "reply", 0) = 1
                                   /\ last.calls[1].arg = "pcm"
        /\ last.env.pcm = "no" => last.calls = << >>
    /\ (PrivateCommand /\ Matches[tg_username, last.text, CmdId]
            /\ ~Matches[tg_username, last.text, CmdStart]) =>
        /\ Len(last.calls) = 1
        /\ last.calls[1] = Call("reply", 0, "id_user")

C12_Witness ==
    /\ PrivateGated
    /\ last.text = TextInvite
    /\ last.from_id \notin Range(pre.wl)
    /\ whitelist_group_admins
    /\ last.calls = << >>

\* ---- command matching -----------------------------------------------------
\* a and b are the same text but for the case of the letters
SameIgnoringCase(a, b) ==
    /\ Len(a) = Len(b)
    /\ \A i \in DOMAIN a :
        \/ a[i] = b[i]
        \/ \E k \in DOMAIN UpperChars : {a[i], b[i]} = {UpperChars[k], LowerChars[k]}
HasSpace(text) == \E i \in DOMAIN text : text[i] = " "
FirstSpace(text) ==
    CHOOSE i \in DOMAIN text : text[i] = " " /\ \A j \in 1..(i - 1) : text[j] # " "
\* the text up to its first space
Token(text) == IF HasSpace(text) THEN SubSeq(text, 1, FirstSpace(text) - 1) ELSE text
Matched == last.op = "match_command" /\ last.err = None
InviteHandled == last.op = "update_command" /\ NCalls(last.calls, "handle_command_invite") = 1
InviteArgGiven ==
    last.calls[CHOOSE i \in DOMAIN last.calls : last.calls[i].op = "handle_command_invite"].arg

\* C13: match_command(text, x) is True iff the lowercased text is "/x" or
\* "/x@<username>", or starts with "/x " or "/x@<username> ", x and the
\* username lowercased; that is, iff the text up to its first space is "/x" or
\* "/x@<username>" but for the case of the letters.  "/portalish" is no match
\* for portal.  The invite handler is given the text after the first space as
\* it was written, and the empty text when there is no space.
C13_MatchCommand ==
    /\ Matched =>
        LET t == lower(last.text)
            x == <<"/">> \o lower(last.command)
            xu == x \o <<"@">> \o lower(tg_username)
        IN  last.result = Bool(\/ t = x
                               \/ t = xu
                               \/ startswith(t, x \o <<" ">>)
                               \/ startswith(t, xu \o <<" ">>))
    /\ Matched =>
        last.result = Bool(
            \/ SameIgnoringCase(Token(last.text), <<"/">> \o last.command)
            \/ SameIgnoringCase(Token(last.text),
                                <<"/">> \o last.command \o <<"@">> \o tg_username))
    /\ (Matched /\ last.text = TextPortalish /\ last.command = CmdPortal) =>
        last.result = "False"
    /\ InviteHandled =>
        IF HasSpace(last.text)
        THEN last.text = SubSeq(last.text, 1, FirstSpace(last.text)) \o InviteArgGiven
        ELSE InviteArgGiven = << >>

C13_Witness ==
    /\ Matched
    /\ last.text = <<"/", "P", "o", "r", "t", "a", "l", "@", "B", "O", "T", " ", "X", "y">>
    /\ last.command = CmdPortal
    /\ last.result = "True"

\* ---- join and leave -------------------------------------------------------
ToGroupOrChannel == last.op = "update_service" /\ last.to_peer.kind \in {"chat", "channel"}
\* the last handler was the dispatcher handling a join that lists the bot
JoinedSelf ==
    /\ ToGroupOrChannel
    /\ last.action.type = "add_user"
    /\ tgid # NoTgid
    /\ tgid \in last.action.users
\* the last handler was the dispatcher handling a leave that names the bot
LeftSelf ==
    /\ ToGroupOrChannel
    /\ last.action.type = "delete_user"
    /\ tgid # NoTgid
    /\ last.action.user_id = tgid

\* C14 as claimed: after a join that lists the bot, in a group or channel, the
\* registry holds the chat id with the kind of the peer; after a leave that
\* names the bot the registry does not hold the chat id.
C14_JoinRegistersPeerKind ==
    /\ JoinedSelf =>
        /\ last.to_peer.id \in DOMAIN chats
        /\ chats[last.to_peer.id] = last.to_peer.kind
    /\ LeftSelf => last.to_peer.id \notin DOMAIN chats

\* C14 as amended: after a join that lists the bot, in a group or channel, the
\* registry holds the chat id, with the kind of the peer when the id was not
\* registered before and with the kind it had when it was; after a leave that
\* names the bot the registry does not hold the chat id; both leave every
\* other entry as it was.
C14_JoinLeave ==
    /\ JoinedSelf =>
        /\ last.to_peer.id \in DOMAIN chats
        /\ chats[last.to_peer.id] = IF last.to_peer.id \in DOMAIN pre.chats
                                    THEN pre.chats[last.to_peer.id]
                                    ELSE last.to_peer.kind
        /\ \A id \in ChatIds \ {last.to_peer.id} :
            /\ id \in DOMAIN chats <=> id \in DOMAIN pre.chats
            /\ id \in DOMAIN chats => chats[id] = pre.chats[id]
    /\ LeftSelf =>
        /\ last.to_peer.id \notin DOMAIN chats
        /\ \A id \in ChatIds \ {last.to_peer.id} :
            /\ id \in DOMAIN chats <=> id \in DOMAIN pre.chats
            /\ id \in DOMAIN chats => chats[id] = pre.chats[id]

C14_Witness ==
    /\ JoinedSelf
    /\ last.to_peer.kind = "channel"
    /\ last.to_peer.id \notin DOMAIN pre.chats
    /\ pre.chats # EmptyMap
    /\ chats[last.to_peer.id] = "channel"

\* ---- whitelist initialisation --------------------------------------------
\* the user ids of the entries of a configured whitelist that are user ids or
\* resolve to a user, in the order of the configuration
RECURSIVE ResolvableIds(_)
ResolvableIds(whitelist) ==
    IF whitelist = << >> THEN << >>
    ELSE LET e == Head(whitelist)
         IN  (IF e.t \in {"int", "user"} THEN <<e.v>> ELSE << >>)
                 \o ResolvableIds(Tail(whitelist))
Unresolvable(e) == e.t \in {"other", "fail"}

\* C15 as claimed: when the configured whitelist holds an entry that does not
\* resolve to a user (get_input_entity raises for it, or gives an entity that
\* is no user), start() still raises nothing in init_permissions, tg_whitelist
\* has gained the ids of all the other entries, and post_login goes on to
\* get_me.
C15_UnresolvableEntrySkipped ==
    (last.op = "start" /\ \E i \in DOMAIN last.whitelist : Unresolvable(last.whitelist[i])) =>
        /\ last.err # "ValueError"
        /\ tg_whitelist = pre.wl \o ResolvableIds(last.whitelist)
        /\ NCalls(last.calls, "get_me") = 1

\* ---- the invite command ---------------------------------------------------
\* the last handler was an invite command outside a private chat that the
\* permission check let through, in a chat whose portal has a Matrix room
InviteAuthorized == InviteHandled /\ last.env.room # "no"
\* the argument begins with "@" and has a ":" at (0-based) index 2 or later
HasLateColon(arg) ==
    /\ Len(arg) > 0
    /\ arg[1] = "@"
    /\ \E i \in DOMAIN arg : i - 1 >= 2 /\ arg[i] = ":"
\* the argument begins with "@" and its first ":" is at (0-based) index 2 or later
FirstColonLate(arg) ==
    /\ Len(arg) > 0
    /\ arg[1] = "@"
    /\ \E i \in DOMAIN arg : i - 1 >= 2 /\ arg[i] = ":" /\ \A j \in 1..(i - 1) : arg[j] # ":"
ReplyAt == CHOOSE i \in DOMAIN last.calls : last.calls[i].op = "reply"
OneReply(kind) ==
    /\ NCalls(last.calls, "reply") = 1
    /\ last.calls[ReplyAt].arg = kind
    /\ ReplyAt = Len(last.calls)
Invitations == NCalls(last.calls, "portal.invite_to_matrix")
TargetLookups == NCalls(last.calls, "User.get_and_start_by_mxid")

\* C16 as claimed: an authorized invite command in a chat with a Matrix room
\* is answered with a reply and no invitation when the argument is empty, does
\* not begin with "@" or has no ":" at index 2 or later; with the reply that
\* names the user when the argument is well formed and the user is logged in;
\* and with an invitation in every other case.
C16_InviteDependsOnArgumentAndLogin ==
    InviteAuthorized =>
        IF ~HasLateColon(InviteArgGiven)
        THEN /\ NCalls(last.calls, "reply") = 1
             /\ last.calls[ReplyAt].arg \in {"usage", "not_a_matrix_id"}
             /\ Invitations = 0
        ELSE IF last.env.target_in = "yes"
        THEN OneReply("logged_in") /\ Invitations = 0
        ELSE Invitations = 1

\* C16 as amended: an authorized invite command in a chat with a Matrix room
\* ends with exactly one reply.  An empty argument gets the usage reply, and an
\* argument that does not begin with "@" or whose first ":" is missing or at
\* an index below 2 gets the not-a-Matrix-ID reply, both without a lookup of
\* the user and without an invitation.  For any other argument the user is
\* looked up once: a user who may not use the relaybot gets the
\* not-whitelisted reply, whether logged in or not, and a user who may and is
\* logged in gets the reply that names the user, both without an invitation;
\* in the remaining case the portal is asked once to invite the user, and the
\* reply follows.
C16_InviteOutcomes ==
    InviteAuthorized =>
        IF Len(InviteArgGiven) = 0
            THEN OneReply("usage") /\ Invitations = 0 /\ TargetLookups = 0
        ELSE IF ~FirstColonLate(InviteArgGiven)
            THEN OneReply("not_a_matrix_id") /\ Invitations = 0 /\ TargetLookups = 0
        ELSE IF last.env.target_wl = "no"
            THEN OneReply("not_whitelisted") /\ Invitations = 0 /\ TargetLookups = 1
        ELSE IF last.env.target_in = "yes"
            THEN OneReply("logged_in") /\ Invitations = 0 /\ TargetLookups = 1
        ELSE /\ OneReply("invited")
             /\ Invitations = 1
             /\ TargetLookups = 1
             /\ last.calls[ReplyAt - 1].op = "portal.invite_to_matrix"

C16_Witness ==
    /\ InviteAuthorized
    /\ last.text = TextInvite
    /\ last.env.target_wl = "no"
    /\ OneReply("not_whitelisted")
    /\ last.err = None

\* ---- one entry per id, of one kind ----------------------------------------
RegistryOps == {"register_portal", "unregister_portal", "update_service", "update_other"}
\* the last handler removed id and added it again afterwards
RemovedThenAdded(id) ==
    \E i, j \in DOMAIN last.calls :
        /\ i < j
        /\ last.calls[i].op = "remove_chat" /\ last.calls[i].id = id
        /\ last.calls[j].op = "add_chat" /\ last.calls[j].id = id

\* C17: the registry and the table hold one kind per chat id; a join, a leave,
\* a migration, a portal registration or unregistration leaves the kind of
\* every id that is registered before and after it as it was, unless it
\* removed the id and added it again (a migration of a group to its own id);
\* and after start() every registered id has the kind the table was loaded
\* with, whatever the reconciliation removed.
C17_KindImmutable ==
    /\ chats \in [DOMAIN chats -> Kinds]
    /\ DOMAIN chats \subseteq ChatIds
    /\ last.op \in RegistryOps =>
        \A id \in DOMAIN chats \cap DOMAIN pre.chats :
            chats[id] # pre.chats[id] => RemovedThenAdded(id)
    /\ last.op = "start" =>
        \A id \in DOMAIN chats : id \in DOMAIN pre.db /\ chats[id] = pre.db[id]

C17_Witness ==
    /\ last.op = "update_service"
    /\ \E id \in DOMAIN chats \cap DOMAIN pre.chats :
        /\ pre.chats[id] = "chat"
        /\ chats[id] = "channel"
        /\ RemovedThenAdded(id)
    /\ \E id \in DOMAIN chats \cap DOMAIN pre.chats : chats[id] = "chat"

\* ---- calls that interleave ------------------------------------------------
\* call t is a migration of a registered group to another id that has removed
\* the group and has not come to add_chat yet
MidMigration(t) ==
    /\ tasks[t].op = "migrate"
    /\ tasks[t].pc \in {"delete", "deleted"}
    /\ tasks[t].was
    /\ tasks[t].new # tasks[t].id

\* C18 as claimed: while a migration of `old` to `new` is suspended between
\* its remove and its add, a call of is_in_chat(new) never finds `new` missing
\* from a registry that `old` has left already.
C18_MigrationAtomic ==
    \A t \in TaskIds :
        (/\ MidMigration(t)
         /\ last.op = "is_in_chat"
         /\ last.id = tasks[t].new
         /\ tasks[t].id \notin DOMAIN chats) => last.result

\* no call of add_chat or remove_chat is in progress
Quiescent == started /\ tasks = NoTasks

\* C20 as claimed: once the registry is loaded, whenever no call of add_chat
\* or remove_chat is in progress the registry and the BotChat table hold the
\* same ids with the same kinds.
C20_MemoryMatchesTable == Quiescent => chats = db

\* ---- what the dispatcher leaves alone ------------------------------------
\* the update is no UpdateNewMessage / UpdateNewChannelMessage
NotNewMessage == last.op = "update_other"
ServiceToUser == last.op = "update_service" /\ last.to_peer.kind = "user"
JoinOfOthers ==
    /\ ToGroupOrChannel
    /\ last.action.type = "add_user"
    /\ tgid \notin last.action.users
LeaveOfOther ==
    /\ ToGroupOrChannel
    /\ last.action.type = "delete_user"
    /\ last.action.user_id # tgid
OtherAction == ToGroupOrChannel /\ last.action.type = "other"

\* C19: an update that is no new message, a service message addressed to a
\* user, a join that does not list the bot, a leave that names another user
\* and a service message with any other action (but a migration) leave the
\* registry, the table and tg_whitelist as they were, make no call (no reply
\* among them) and raise nothing; update() returns False.
C19_DispatcherFrame ==
    (NotNewMessage \/ ServiceToUser \/ JoinOfOthers \/ LeaveOfOther \/ OtherAction) =>
        /\ chats = pre.chats
        /\ db = pre.db
        /\ tg_whitelist = pre.wl
        /\ last.calls = << >>
        /\ last.err = None
        /\ last.result = FALSE

C19_Witness ==
    /\ JoinOfOthers
    /\ tgid # NoTgid
    /\ last.action.users # {}
    /\ last.to_peer.id \notin DOMAIN chats
    /\ chats # EmptyMap
    /\ chats = pre.chats
====
